---- MODULE Spec2Model ----
(***************************************************************************)
(* A model of Drain (src/index.js): the adapter that turns request /       *)
(* response event pairs on an EventEmitter into a pull-based next().       *)
(*                                                                         *)
(* JavaScript runs one call stack to completion, so the model keeps an     *)
(* explicit call stack of frames and only the top frame takes a step.      *)
(* Each statement of next(), _makeNextRequest(), handleResponse() and      *)
(* dispose() is one action.  Code that is not Drain's (the consumer, the   *)
(* responder listening for the request event) acts when the stack is empty *)
(* or when the top frame is a request listener.                            *)
(***************************************************************************)
EXTENDS Naturals, Sequences, FiniteSets

\* Bounds of the model.
MaxCalls == 3
MaxResponses == 3
MaxItems == 2

\* The values the responder's list may hold, the values a response of the
\* unconstrained responder carries, and the errors a done getter may raise.
Values == {"a", "b"}
FreeValues == {"a"}
GetterErrors == {"boom"}

VARIABLES
    done,        \* this._done
    current,     \* this._current: 0 is null, h > 0 is holders[h]
    waiting,     \* this._waiting
    subs,        \* emitter.listenerCount(this._response) for _boundHandleResponse
    stack,       \* the call stack, top frame last
    holders,     \* every {resolve, reject, promise} next() has created
    calls,       \* every next() call and the promise it returned
    requests,    \* one entry per emitted request event: responses accepted so far
    accepted,    \* handleResponse invocations that passed the waiting check
    nresp,       \* response objects created so far (their serial numbers)
    outcomes,    \* per accepted response: what it is to settle the pending pull with
    hrLog,       \* a record of the latest handleResponse invocation
    thrown,      \* errors that propagated to a top-level caller
    disposed,    \* dispose() has been called from outside Drain
    loop,        \* asyncDrain (src/test.js): the consumer loop
    values,      \* asyncDrain's collected values
    items,       \* the responder's list as it was at the start
    remaining,   \* the responder's list (responses.shift() consumes it)
    throwAt,     \* the serial number of the response whose done getter raises (0: none)
    owed         \* requests the responder has not answered yet

adapterVars == <<done, current, waiting, subs>>
ghostVars == <<holders, calls, requests, accepted, nresp, outcomes, hrLog, thrown, disposed>>
drainVars == <<loop, values, items, remaining, throwAt, owed>>
vars == <<done, current, waiting, subs, stack, holders, calls, requests, accepted,
          nresp, outcomes, hrLog, thrown, disposed, loop, values, items, remaining, throwAt, owed>>

----------------------------------------------------------------------------
\* Responses and promises

\* A response object { done, value }; raises names the error its done getter
\* throws ("none": a plain field).  id tells response objects apart.
Resp(i, d, v, x) == [id |-> i, done |-> d, value |-> v, raises |-> x]
NoResp == Resp(0, FALSE, "none", "none")

\* The object next() returns once done: { done: true, value: null }.
TerminalResult == Resp(0, TRUE, "null", "none")

\* The state of a promise.
Unsettled == [state |-> "pending", resp |-> NoResp, err |-> "none"]
Resolved(r) == [state |-> "resolved", resp |-> r, err |-> "none"]
Rejected(e) == [state |-> "rejected", resp |-> NoResp, err |-> e]

\* The error handleResponse throws when no response is expected.
UnexpectedResponse == "Was not expecting a response, but got a response"

\* The error of calling a method of null.
TypeError == "TypeError"

\* A promise is settled at most once: later resolve / reject calls are ignored.
Settle(p, outcome) == IF p.state = "pending" THEN outcome ELSE p

\* A frame of the call stack.  call is the number of the next() call the frame
\* runs; in a handleResponse frame it tells who invoked the handler: 1 the
\* emitter, dispatching a response event, 0 a direct call.
Frame(op, pc, c, r, e, h) == [op |-> op, pc |-> pc, call |-> c, resp |-> r, err |-> e, hold |-> h]

\* handleResponse(r) as the emitter invokes it, and as called directly.
EmittedHandler(r) == Frame("handleResponse", "h66", 1, r, "none", 0)
DirectHandler(r) == Frame("handleResponse", "h66", 0, r, "none", 0)

Top == stack[Len(stack)]
Running == Len(stack) > 0
Pop(s) == SubSeq(s, 1, Len(s) - 1)
Push(s, f) == Append(s, f)
Goto(s, pc) == [s EXCEPT ![Len(s)].pc = pc]
At(op, pc) == Running /\ Top.op = op /\ Top.pc = pc

\* An exception thrown while the stack is s unwinds to the nearest next() frame:
\* next() is an async function, so what is thrown inside it rejects the promise
\* it returns.  Listener and _makeNextRequest frames catch nothing.  0: no
\* next() frame, the exception reaches the top-level caller.
CatcherIndex(s) ==
    LET nexts == {i \in 1..Len(s) : s[i].op = "next"}
    IN IF nexts = {} THEN 0 ELSE CHOOSE i \in nexts : \A j \in nexts : j <= i

ThrowStack(s) == SubSeq(s, 1, CatcherIndex(s) - 1)

ThrowCalls(s, cs, e) ==
    IF CatcherIndex(s) = 0 THEN cs
    ELSE [cs EXCEPT ![s[CatcherIndex(s)].call] =
             [@ EXCEPT !.status = "returned", !.promise = Rejected(e), !.raised = TRUE]]

ThrowThrown(s, t, e) == IF CatcherIndex(s) = 0 THEN Append(t, e) ELSE t

\* The promise of an async function that returned promise p follows p.
Follow(cs, hs) ==
    [c \in DOMAIN cs |->
        IF cs[c].status = "returned" /\ cs[c].holder # 0
        THEN [cs[c] EXCEPT !.promise = hs[cs[c].holder].promise]
        ELSE cs[c]]

\* A record of a next() call that has just been made.
NewCall == [status |-> "running", holder |-> 0, promise |-> Unsettled,
            epoch |-> accepted, wasDone |-> done, raised |-> FALSE]

----------------------------------------------------------------------------
\* constructor (src/index.js 43-53)

\* Constructor with the emitter.on of line 52 left out.
Constructor_noSubscribe ==
    /\ done = FALSE
    /\ current = 0
    /\ waiting = FALSE
    /\ subs = 0

Constructor ==
    /\ done = FALSE
    /\ current = 0
    /\ waiting = FALSE
    /\ subs = 1

----------------------------------------------------------------------------
\* async next() (src/index.js 95-116)

\* IsDone with the check of line 96 left out.
IsDone_never == FALSE

\* line 96: the adapter is done
IsDone == done

\* line 96: if (this._done) { return Promise.resolve({ done: true, value: null }); }
next_checkDone ==
    /\ At("next", "n96")
    /\ IF IsDone
       THEN /\ calls' = [calls EXCEPT ![Top.call] =
                            [@ EXCEPT !.status = "returned",
                                      !.promise = Resolved(TerminalResult)]]
            /\ stack' = Pop(stack)
       ELSE /\ stack' = Goto(stack, "n97")
            /\ UNCHANGED calls
    /\ UNCHANGED <<adapterVars, holders, requests, accepted, nresp, outcomes, hrLog, thrown,
                   disposed, drainVars>>

\* HasCurrent with the check of line 97 left out: every call starts a new pull.
HasCurrent_never == FALSE

\* line 97: a pull is already pending
HasCurrent == current # 0

\* line 97: if (this._current) { return this._current.promise; }
next_checkCurrent ==
    /\ At("next", "n97")
    /\ IF HasCurrent
       THEN /\ calls' = [calls EXCEPT ![Top.call] =
                            [@ EXCEPT !.status = "returned", !.holder = current,
                                      !.promise = holders[current].promise]]
            /\ stack' = Pop(stack)
       ELSE /\ stack' = Goto(stack, "n99")
            /\ UNCHANGED calls
    /\ UNCHANGED <<adapterVars, holders, requests, accepted, nresp, outcomes, hrLog, thrown,
                   disposed, drainVars>>

\* lines 99-111: a new promise; this._current = { resolve, reject, promise }
next_createCurrent ==
    /\ At("next", "n99")
    /\ holders' = Append(holders, [promise |-> Unsettled, resolves |-> 0, rejects |-> 0])
    /\ current' = Len(holders) + 1
    /\ stack' = [stack EXCEPT ![Len(stack)].pc = "n113", ![Len(stack)].hold = Len(holders) + 1]
    /\ UNCHANGED <<done, waiting, subs, calls, requests, accepted, nresp, outcomes, hrLog, thrown,
                   disposed, drainVars>>

\* line 113: this._makeNextRequest();
next_callMakeNextRequest ==
    /\ At("next", "n113")
    /\ stack' = Push(Goto(stack, "n115"), Frame("makeNextRequest", "m90", 0, NoResp, "none", 0))
    /\ UNCHANGED <<adapterVars, ghostVars, drainVars>>

\* line 115: return promise;
next_return ==
    /\ At("next", "n115")
    /\ calls' = [calls EXCEPT ![Top.call] =
                    [@ EXCEPT !.status = "returned", !.holder = Top.hold,
                              !.promise = holders[Top.hold].promise]]
    /\ stack' = Pop(stack)
    /\ UNCHANGED <<adapterVars, holders, requests, accepted, nresp, outcomes, hrLog, thrown,
                   disposed, drainVars>>

----------------------------------------------------------------------------
\* _makeNextRequest() (src/index.js 89-93)

\* WaitingOnRequest with the assignment of line 90 left out.
WaitingOnRequest_unset == waiting

\* line 90: what _makeNextRequest stores in this._waiting before it emits
WaitingOnRequest == TRUE

\* line 90: this._waiting = true;
makeNextRequest_setWaiting ==
    /\ At("makeNextRequest", "m90")
    /\ waiting' = WaitingOnRequest
    /\ stack' = Goto(stack, "m92")
    /\ UNCHANGED <<done, current, subs, ghostVars, drainVars>>

\* line 92: this._emitter.emit(this._request); the listeners of the request
\* event run inside the emit call.
makeNextRequest_emit ==
    /\ At("makeNextRequest", "m92")
    /\ requests' = Append(requests, accepted)
    /\ stack' = Push(Goto(stack, "m93"), Frame("listener", "run", 0, NoResp, "none", 0))
    /\ UNCHANGED <<adapterVars, holders, calls, accepted, nresp, outcomes, hrLog, thrown,
                   disposed, drainVars>>

\* line 93: the end of _makeNextRequest
makeNextRequest_return ==
    /\ At("makeNextRequest", "m93")
    /\ stack' = Pop(stack)
    /\ UNCHANGED <<adapterVars, ghostVars, drainVars>>

----------------------------------------------------------------------------
\* dispose() (src/index.js 84-87)

\* line 85: this._done = true;
dispose_setDone ==
    /\ At("dispose", "d85")
    /\ done' = TRUE
    /\ stack' = Goto(stack, "d86")
    /\ UNCHANGED <<current, waiting, subs, ghostVars, drainVars>>

\* RemoveListener with the removal left out.
RemoveListener_keep(n) == n

\* EventEmitter.removeListener removes one registration of the listener, if any.
RemoveListener(n) == IF n > 0 THEN n - 1 ELSE 0

\* line 86: this._emitter.removeListener(this._response, this._boundHandleResponse);
dispose_removeListener ==
    /\ At("dispose", "d86")
    /\ subs' = RemoveListener(subs)
    /\ stack' = Pop(stack)
    /\ UNCHANGED <<done, current, waiting, ghostVars, drainVars>>

----------------------------------------------------------------------------
\* handleResponse(response) (src/index.js 63-82)

\* NotWaiting with the check of line 66 left out.
NotWaiting_never == FALSE

\* line 66: no response is expected
NotWaiting == waiting = FALSE

\* WaitingAfterResponse with the reset of line 69 left out.
WaitingAfterResponse_stays == TRUE

\* line 69: this._waiting = false;
WaitingAfterResponse == FALSE

\* What hrLog keeps of an invocation when it starts.
LogEntry(r, t) ==
    [n |-> hrLog.n + 1, resp |-> r, waitingBefore |-> waiting, currentBefore |-> current,
     doneBefore |-> done, threw |-> t, emitted |-> (Top.call = 1), finished |-> FALSE,
     doneAfter |-> FALSE, subsAfter |-> 0, currentAfter |-> 0, waitingAfter |-> FALSE,
     raised |-> "none"]

\* lines 66-70: throw unless a response is expected; else this._waiting = false
handleResponse_checkWaiting ==
    /\ At("handleResponse", "h66")
    /\ IF NotWaiting
       THEN /\ hrLog' = LogEntry(Top.resp, TRUE)
            /\ stack' = ThrowStack(Pop(stack))
            /\ calls' = ThrowCalls(Pop(stack), calls, UnexpectedResponse)
            /\ thrown' = ThrowThrown(Pop(stack), thrown, UnexpectedResponse)
            /\ UNCHANGED <<waiting, accepted>>
       ELSE /\ hrLog' = LogEntry(Top.resp, FALSE)
            /\ waiting' = WaitingAfterResponse
            /\ accepted' = accepted + 1
            /\ stack' = Goto(stack, "h73")
            /\ UNCHANGED <<calls, thrown>>
    /\ UNCHANGED <<done, current, subs, holders, requests, nresp, outcomes, disposed, drainVars>>

\* AfterReadDone with the dispose() of line 74 left out.
AfterReadDone_noDispose(r) == IF r.raises # "none" THEN "h78" ELSE "h76"

\* line 73: where control goes after evaluating response.done, which may throw
AfterReadDone(r) ==
    IF r.raises # "none" THEN "h78"
    ELSE IF r.done THEN "h74" ELSE "h76"

\* line 73: if (response.done), inside try
handleResponse_readDone ==
    /\ At("handleResponse", "h73")
    /\ stack' = [stack EXCEPT ![Len(stack)].pc = AfterReadDone(Top.resp),
                              ![Len(stack)].err = Top.resp.raises]
    /\ UNCHANGED <<adapterVars, ghostVars, drainVars>>

\* line 74: this.dispose();
handleResponse_callDispose ==
    /\ At("handleResponse", "h74")
    /\ stack' = Push(Goto(stack, "h76"), Frame("dispose", "d85", 0, NoResp, "none", 0))
    /\ UNCHANGED <<adapterVars, ghostVars, drainVars>>

\* ResolveHolder with the resolve call left out.
ResolveHolder_drop(hs, h, r) == hs

\* ResolveHolder resolving a done response as next() answers once done, with
\* { done: true, value: null }, instead of with the response.
ResolveHolder_terminal(hs, h, r) ==
    [hs EXCEPT ![h].promise = Settle(@, Resolved(IF r.done THEN TerminalResult ELSE r)),
               ![h].resolves = @ + 1]

\* this._current.resolve(response) on holder h
ResolveHolder(hs, h, r) ==
    [hs EXCEPT ![h].promise = Settle(@, Resolved(r)), ![h].resolves = @ + 1]

\* RejectHolder rejecting with an error of its own instead of e.
RejectHolder_wrapped(hs, h, e) ==
    [hs EXCEPT ![h].promise = Settle(@, Rejected("Error: " \o e)), ![h].rejects = @ + 1]

\* this._current.reject(e) on holder h
RejectHolder(hs, h, e) ==
    [hs EXCEPT ![h].promise = Settle(@, Rejected(e)), ![h].rejects = @ + 1]

\* line 76: this._current.resolve(response); a null _current throws a TypeError,
\* which the catch of line 77 receives
handleResponse_resolve ==
    /\ At("handleResponse", "h76")
    /\ IF current = 0
       THEN /\ stack' = [stack EXCEPT ![Len(stack)].pc = "h78", ![Len(stack)].err = TypeError]
            /\ UNCHANGED <<holders, calls, outcomes>>
       ELSE /\ holders' = ResolveHolder(holders, current, Top.resp)
            /\ calls' = Follow(calls, holders')
            /\ outcomes' = Append(outcomes, Resolved(Top.resp))
            /\ stack' = Goto(stack, "h80")
    /\ UNCHANGED <<adapterVars, requests, accepted, nresp, hrLog, thrown, disposed, drainVars>>

\* line 78: this._current.reject(e); a null _current throws a TypeError out of
\* the catch block, which leaves handleResponse after the finally block
handleResponse_reject ==
    /\ At("handleResponse", "h78")
    /\ IF current = 0
       THEN /\ stack' = [stack EXCEPT ![Len(stack)].pc = "h80", ![Len(stack)].err = TypeError]
            /\ UNCHANGED <<holders, calls, outcomes>>
       ELSE /\ holders' = RejectHolder(holders, current, Top.err)
            /\ calls' = Follow(calls, holders')
            /\ outcomes' = Append(outcomes, Rejected(Top.err))
            /\ stack' = [stack EXCEPT ![Len(stack)].pc = "h80", ![Len(stack)].err = "none"]
    /\ UNCHANGED <<adapterVars, requests, accepted, nresp, hrLog, thrown, disposed, drainVars>>

\* ClearCurrent with the assignment of line 80 left out.
ClearCurrent_keep(c) == c

\* line 80: what finally leaves in this._current
ClearCurrent(c) == 0

\* lines 79-82: finally { this._current = null; } and the end of handleResponse
handleResponse_finally ==
    /\ At("handleResponse", "h80")
    /\ current' = ClearCurrent(current)
    /\ hrLog' = [hrLog EXCEPT !.finished = TRUE, !.doneAfter = done, !.subsAfter = subs,
                              !.currentAfter = current', !.waitingAfter = waiting,
                              !.raised = Top.err]
    /\ IF Top.err # "none"
       THEN /\ stack' = ThrowStack(Pop(stack))
            /\ calls' = ThrowCalls(Pop(stack), calls, Top.err)
            /\ thrown' = ThrowThrown(Pop(stack), thrown, Top.err)
       ELSE /\ stack' = Pop(stack)
            /\ UNCHANGED <<calls, thrown>>
    /\ UNCHANGED <<done, waiting, subs, holders, requests, accepted, nresp, outcomes, disposed, drainVars>>

\* One step of Drain's own code.
DrainStep ==
    \/ next_checkDone
    \/ next_checkCurrent
    \/ next_createCurrent
    \/ next_callMakeNextRequest
    \/ next_return
    \/ makeNextRequest_setWaiting
    \/ makeNextRequest_emit
    \/ makeNextRequest_return
    \/ handleResponse_checkWaiting
    \/ handleResponse_readDone
    \/ handleResponse_callDispose
    \/ handleResponse_resolve
    \/ handleResponse_reject
    \/ handleResponse_finally
    \/ dispose_setDone
    \/ dispose_removeListener

----------------------------------------------------------------------------
\* The code around Drain: a consumer and a responder that may do anything the
\* emitter and Drain's methods allow (src/test.js 130-141 calls handleResponse
\* directly and emits an unmatched response).

\* Foreign code runs at top level or inside a listener of the request event.
Foreign == ~Running \/ At("listener", "run")

\* The response objects the responder may build.
AnyResponse ==
    {Resp(nresp + 1, d, v, x) : d \in BOOLEAN, v \in FreeValues, x \in {"none"} \cup GetterErrors}

\* drain.next()
CallNext ==
    /\ Foreign
    /\ Len(calls) < MaxCalls
    /\ calls' = Append(calls, NewCall)
    /\ stack' = Push(stack, Frame("next", "n96", Len(calls) + 1, NoResp, "none", 0))
    /\ UNCHANGED <<adapterVars, holders, requests, accepted, nresp, outcomes, hrLog, thrown,
                   disposed, drainVars>>

\* drain.dispose()
CallDispose ==
    /\ Foreign
    /\ disposed' = TRUE
    /\ stack' = Push(stack, Frame("dispose", "d85", 0, NoResp, "none", 0))
    /\ UNCHANGED <<adapterVars, holders, calls, requests, accepted, nresp, outcomes, hrLog, thrown,
                   drainVars>>

\* drain.handleResponse(response), called directly
CallHandleResponse ==
    /\ Foreign
    /\ nresp < MaxResponses
    /\ \E r \in AnyResponse : stack' = Push(stack, DirectHandler(r))
    /\ nresp' = nresp + 1
    /\ UNCHANGED <<adapterVars, holders, calls, requests, accepted, outcomes, hrLog, thrown,
                   disposed, drainVars>>

\* emitter.emit(response, r): runs handleResponse while Drain is subscribed
EmitResponse ==
    /\ Foreign
    /\ nresp < MaxResponses
    /\ \E r \in AnyResponse :
          stack' = IF subs > 0 THEN Push(stack, EmittedHandler(r)) ELSE stack
    /\ nresp' = nresp + 1
    /\ UNCHANGED <<adapterVars, holders, calls, requests, accepted, outcomes, hrLog, thrown,
                   disposed, drainVars>>

\* the listener of the request event returns
ListenerReturn ==
    /\ At("listener", "run")
    /\ stack' = Pop(stack)
    /\ UNCHANGED <<adapterVars, ghostVars, drainVars>>

\* No handleResponse invocation yet.
NoLog ==
    [n |-> 0, resp |-> NoResp, waitingBefore |-> FALSE, currentBefore |-> 0,
     doneBefore |-> FALSE, threw |-> FALSE, emitted |-> FALSE, finished |-> FALSE,
     doneAfter |-> FALSE, subsAfter |-> 0, currentAfter |-> 0, waitingAfter |-> FALSE,
     raised |-> "none"]

\* An error of the request listener's own.
ListenerError == "listener error"

\* the listener of the request event throws: nothing between it and next()
\* catches, so the next() call that emitted the request rejects
ListenerThrow ==
    /\ At("listener", "run")
    /\ stack' = ThrowStack(Pop(stack))
    /\ calls' = ThrowCalls(Pop(stack), calls, ListenerError)
    /\ thrown' = ThrowThrown(Pop(stack), thrown, ListenerError)
    /\ UNCHANGED <<adapterVars, holders, requests, accepted, nresp, outcomes, hrLog,
                   disposed, drainVars>>

NoLoop == [state |-> "idle", call |-> 0, err |-> "none"]

Init ==
    /\ Constructor
    /\ stack = <<>>
    /\ holders = <<>>
    /\ calls = <<>>
    /\ requests = <<>>
    /\ accepted = 0
    /\ nresp = 0
    /\ outcomes = <<>>
    /\ hrLog = NoLog
    /\ thrown = <<>>
    /\ disposed = FALSE
    /\ loop = NoLoop
    /\ values = <<>>
    /\ items = <<>>
    /\ remaining = <<>>
    /\ throwAt = 0
    /\ owed = 0

Next ==
    \/ DrainStep
    \/ CallNext
    \/ CallDispose
    \/ CallHandleResponse
    \/ EmitResponse
    \/ ListenerReturn
    \/ ListenerThrow

Spec == Init /\ [][Next]_vars

----------------------------------------------------------------------------
\* asyncDrain and the responder of the tests (src/test.js 8-16, 37-42, 70-78):
\* a consumer loop that pulls until done, and a responder that answers each
\* request with exactly one response, taken from a list.

\* All lists over S of length at most n.
ListsUpTo(S, n) == UNION {[1..k -> S] : k \in 0..n}

\* { done: responses.length === 0, value: responses.shift() }; the done getter
\* of response number throwAt raises.
ResponderResponse ==
    Resp(nresp + 1,
         remaining = <<>>,
         IF remaining = <<>> THEN "undefined" ELSE Head(remaining),
         IF throwAt = nresp + 1 THEN "boom" ELSE "none")

\* responses.shift()
Shift(l) == IF l = <<>> THEN l ELSE Tail(l)

\* emitter.emit(response, r) as it changes the stack s
Dispatch(s, r) ==
    IF subs > 0 THEN Push(s, EmittedHandler(r)) ELSE s

\* the responder answers inside the dispatch of the request event
Responder_answer ==
    /\ At("listener", "run")
    /\ stack' = Dispatch(Goto(stack, "ran"), ResponderResponse)
    /\ nresp' = nresp + 1
    /\ remaining' = Shift(remaining)
    /\ UNCHANGED <<adapterVars, holders, calls, requests, accepted, outcomes, hrLog, thrown,
                   disposed, loop, values, items, throwAt, owed>>

\* the responder notes the request and answers later
Responder_defer ==
    /\ At("listener", "run")
    /\ owed' = owed + 1
    /\ stack' = Pop(stack)
    /\ UNCHANGED <<adapterVars, ghostVars, loop, values, items, remaining, throwAt>>

\* the responder's listener returns after having answered
Responder_return ==
    /\ At("listener", "ran")
    /\ stack' = Pop(stack)
    /\ UNCHANGED <<adapterVars, ghostVars, drainVars>>

\* the responder answers a request it noted
Responder_answerLater ==
    /\ ~Running
    /\ owed > 0
    /\ owed' = owed - 1
    /\ stack' = Dispatch(stack, ResponderResponse)
    /\ nresp' = nresp + 1
    /\ remaining' = Shift(remaining)
    /\ UNCHANGED <<adapterVars, holders, calls, requests, accepted, outcomes, hrLog, thrown,
                   disposed, loop, values, items, throwAt>>

\* the stack after calling drain.next() as call number c
CallStack(c) == Push(stack, Frame("next", "n96", c, NoResp, "none", 0))

\* line 10: let step = await iterableOfPromises.next();
asyncDrain_start ==
    /\ ~Running
    /\ loop.state = "idle"
    /\ calls' = Append(calls, NewCall)
    /\ stack' = CallStack(Len(calls) + 1)
    /\ loop' = [state |-> "awaiting", call |-> Len(calls) + 1, err |-> "none"]
    /\ UNCHANGED <<adapterVars, holders, requests, accepted, nresp, outcomes, hrLog, thrown,
                   disposed, values, items, remaining, throwAt, owed>>

\* lines 11-15: the awaited promise has settled: a rejection ends the loop with
\* its error, a done step ends it, any other step is collected and next() is
\* called again
asyncDrain_resume ==
    /\ ~Running
    /\ loop.state = "awaiting"
    /\ calls[loop.call].promise.state # "pending"
    /\ LET p == calls[loop.call].promise
       IN IF p.state = "rejected"
          THEN /\ loop' = [state |-> "failed", call |-> 0, err |-> p.err]
               /\ UNCHANGED <<values, calls, stack>>
          ELSE IF p.resp.done
          THEN /\ loop' = [state |-> "finished", call |-> 0, err |-> "none"]
               /\ UNCHANGED <<values, calls, stack>>
          ELSE /\ values' = Append(values, p.resp.value)
               /\ calls' = Append(calls, NewCall)
               /\ stack' = CallStack(Len(calls) + 1)
               /\ loop' = [loop EXCEPT !.call = Len(calls) + 1]
    /\ UNCHANGED <<adapterVars, holders, requests, accepted, nresp, outcomes, hrLog, thrown,
                   disposed, items, remaining, throwAt, owed>>

InitDrain ==
    /\ Constructor
    /\ stack = <<>>
    /\ holders = <<>>
    /\ calls = <<>>
    /\ requests = <<>>
    /\ accepted = 0
    /\ nresp = 0
    /\ outcomes = <<>>
    /\ hrLog = NoLog
    /\ thrown = <<>>
    /\ disposed = FALSE
    /\ loop = NoLoop
    /\ values = <<>>
    /\ items \in ListsUpTo(Values, MaxItems)
    /\ remaining = items
    /\ throwAt \in 0..(MaxItems + 1)
    /\ owed = 0

NextDrain ==
    \/ DrainStep
    \/ Responder_answer
    \/ Responder_defer
    \/ Responder_return
    \/ Responder_answerLater
    \/ asyncDrain_start
    \/ asyncDrain_resume

\* Every step that can be taken is taken: JavaScript runs the call stack to
\* completion and then the settled promises' continuations, and the responder
\* answers every request.
SpecDrain == InitDrain /\ [][NextDrain]_vars /\ WF_vars(NextDrain)

----------------------------------------------------------------------------
\* Properties

\* The next() calls made while the adapter was not done and with the same
\* number of responses processed as call c: one window of calls.
Window(c) ==
    {d \in DOMAIN calls : ~calls[d].wasDone /\ calls[d].epoch = calls[c].epoch}

\* The request events emitted in call c's window.
WindowRequests(c) == {i \in DOMAIN requests : requests[i] = calls[c].epoch}

\* Call c was made while not done, with at least one other call in its window,
\* and has returned its promise.
Shared(c) ==
    /\ ~calls[c].wasDone
    /\ Cardinality(Window(c)) >= 2
    /\ calls[c].status = "returned"

\* The response of call c's window has been processed.
Answered(c) == Len(outcomes) > calls[c].epoch

\* C1 as stated: of two or more next() calls made while not done and before
\* the response is processed, exactly one emits a request event, and once the
\* response is processed every one of the calls is settled by it.
C1_AllSettleWithResponse ==
    \A c \in DOMAIN calls :
        Shared(c) =>
            /\ Cardinality(WindowRequests(c)) = 1
            /\ Answered(c) => calls[c].promise = outcomes[calls[c].epoch + 1]

\* C1, amended: of two or more next() calls made while not done and before the
\* response is processed, exactly one emits a request event, and once the
\* response is processed every one of the calls is settled by it, except a call
\* out of whose own emit of the request event an error propagated (the error
\* of an unmatched further response emitted inside the dispatch, or one the
\* request listener threw): that call rejects with that error.
C1_NoDoubleRequest ==
    \A c \in DOMAIN calls :
        Shared(c) =>
            /\ Cardinality(WindowRequests(c)) = 1
            /\ (Answered(c) /\ ~calls[c].raised) =>
                   calls[c].promise = outcomes[calls[c].epoch + 1]
            /\ calls[c].raised =>
                   calls[c].promise \in {Rejected(UnexpectedResponse), Rejected(ListenerError)}

\* Three calls of one window have all resolved with the one response.
C1_Witness ==
    \E c \in DOMAIN calls :
        /\ Shared(c)
        /\ Cardinality(Window(c)) >= 3
        /\ Cardinality(WindowRequests(c)) = 1
        /\ Answered(c)
        /\ \A d \in Window(c) :
              /\ calls[d].status = "returned"
              /\ calls[d].promise.state = "resolved"
              /\ calls[d].promise = outcomes[calls[c].epoch + 1]

\* The responder's list runs out before any done getter raises.
HappyPath == throwAt = 0 \/ throwAt > Len(items) + 1

\* C2: with a responder that answers every request with exactly one response,
\* the list's items in order and then done, the consumer loop ends, having
\* collected exactly the list's items in order; the adapter is then done and
\* unsubscribed.
C2_HappyPathDrain ==
    <>[](HappyPath =>
            /\ loop.state = "finished"
            /\ values = items
            /\ done
            /\ subs = 0)

\* The loop has ended with two different items collected in the list's order.
C2_Witness ==
    /\ HappyPath
    /\ loop.state = "finished"
    /\ Len(items) = 2
    /\ items[1] # items[2]
    /\ values = items
    /\ done
    /\ subs = 0

\* The latest handleResponse invocation passed the waiting check and has ended.
Processed == hrLog.n > 0 /\ hrLog.finished /\ ~hrLog.threw

\* C3: when handleResponse has processed a response whose done flag is true
\* while a pull was pending, the adapter is done, its handler is no longer
\* subscribed, and the pull is resolved with that response (resolve called
\* once, reject never).
C3_AutoDispose ==
    (/\ Processed
     /\ hrLog.resp.raises = "none"
     /\ hrLog.resp.done
     /\ hrLog.currentBefore # 0) =>
        /\ hrLog.doneAfter
        /\ hrLog.subsAfter = 0
        /\ holders[hrLog.currentBefore].promise = Resolved(hrLog.resp)
        /\ holders[hrLog.currentBefore].resolves = 1
        /\ holders[hrLog.currentBefore].rejects = 0

\* A done response was processed on an adapter that was not done before.
C3_Witness ==
    /\ Processed
    /\ hrLog.resp.raises = "none"
    /\ hrLog.resp.done
    /\ hrLog.currentBefore # 0
    /\ ~hrLog.doneBefore
    /\ hrLog.doneAfter
    /\ hrLog.subsAfter = 0
    /\ holders[hrLog.currentBefore].promise = Resolved(hrLog.resp)

\* C4: an invocation of handleResponse throws exactly when waiting is false;
\* what it throws is the unexpected-response error; a response is accepted
\* only against a request, and between operations waiting is true exactly when
\* one request is unanswered, so after next() one response is accepted and the
\* one after it throws.
C4_ProtocolViolation ==
    /\ hrLog.n > 0 => (hrLog.threw <=> ~hrLog.waitingBefore)
    /\ \A i \in DOMAIN thrown : thrown[i] = UnexpectedResponse
    /\ accepted <= Len(requests)
    /\ Foreign => (waiting <=> Len(requests) = accepted + 1)

\* src/test.js 130-141: a response throws, next() is called, a response is
\* accepted, a further response throws.
C4_Witness ==
    /\ ~Running
    /\ Len(calls) = 1
    /\ Len(requests) = 1
    /\ accepted = 1
    /\ hrLog.n = 3
    /\ hrLog.threw
    /\ thrown = <<UnexpectedResponse, UnexpectedResponse>>

\* The done getter of one of the responses the loop receives raises.
Raising == throwAt \in 1..(Len(items) + 1)

\* C5: when evaluating response.done raises while a pull is pending, the pull
\* is rejected with that error, nothing is thrown out of handleResponse or the
\* emit that ran it, and the consumer loop ends with that error, having
\* collected only the values received before.
C5_ErrorPropagation ==
    /\ [](/\ (Processed /\ hrLog.resp.raises # "none") =>
                /\ hrLog.currentBefore # 0
                /\ holders[hrLog.currentBefore].promise = Rejected(hrLog.resp.raises)
                /\ hrLog.raised = "none"
                /\ thrown = <<>>
                /\ \A c \in DOMAIN calls : ~calls[c].raised
          /\ Raising => Len(values) < throwAt
          /\ loop.state = "failed" => Raising /\ loop.err = "boom")
    /\ <>[](Raising =>
              /\ loop.state = "failed"
              /\ loop.err = "boom"
              /\ values = SubSeq(items, 1, throwAt - 1)
              /\ Len(calls) = throwAt)

\* src/test.js 66-89: the second response raises; the loop has failed with
\* the error after collecting the first value.
C5_Witness ==
    /\ throwAt = 2
    /\ Len(items) = 2
    /\ loop.state = "failed"
    /\ loop.err = "boom"
    /\ values = <<items[1]>>
    /\ holders[2].promise = Rejected("boom")
    /\ thrown = <<>>

\* C6: a next() call made when done is true returns { done: true, value: null }
\* and emits no request, adds no subscription and leaves pending and waiting
\* as they were.
C6_NextAfterDone ==
    [][(At("next", "n96") /\ done) =>
          /\ calls'[Top.call].status = "returned"
          /\ calls'[Top.call].promise = Resolved(TerminalResult)
          /\ stack' = Pop(stack)
          /\ UNCHANGED <<done, current, waiting, subs, requests, holders>>]_vars

\* Two next() calls made after dispose() have returned the terminal result.
C6_Witness ==
    /\ disposed
    /\ requests = <<>>
    /\ \E c, d \in DOMAIN calls :
          /\ c # d
          /\ calls[c].wasDone /\ calls[d].wasDone
          /\ calls[c].promise = Resolved(TerminalResult)
          /\ calls[d].promise = Resolved(TerminalResult)

\* C7: dispose() sets done, removes the handler and changes nothing else; on an
\* adapter already disposed it changes nothing.
C7_Dispose ==
    [][/\ At("dispose", "d85") =>
             /\ done'
             /\ UNCHANGED <<current, waiting, subs, holders, calls, requests, outcomes>>
       /\ At("dispose", "d86") =>
             /\ done
             /\ subs' = 0
             /\ stack' = Pop(stack)
             /\ UNCHANGED <<done, current, waiting, holders, calls, requests, outcomes>>
       /\ (Running /\ Top.op = "dispose" /\ done /\ subs = 0) =>
             UNCHANGED <<done, current, waiting, subs>>]_vars

\* dispose() is about to end on an adapter that was already disposed while a
\* pull is pending: the pull is still pending.
C7_Witness ==
    /\ At("dispose", "d86")
    /\ done
    /\ subs = 0
    /\ disposed
    /\ current # 0
    /\ waiting
    /\ holders[current].promise = Unsettled

\* Nothing has been called or emitted since construction.
Fresh ==
    /\ ~Running
    /\ calls = <<>>
    /\ nresp = 0
    /\ hrLog.n = 0
    /\ ~disposed

\* C8: right after construction done is false, no pull is pending, waiting is
\* false, the handler is subscribed once and no request has been emitted.
C8_InitialState ==
    Fresh =>
        /\ done = FALSE
        /\ current = 0
        /\ waiting = FALSE
        /\ subs = 1
        /\ requests = <<>>

\* The adapter as constructed.
C8_Witness ==
    /\ Fresh
    /\ ~done
    /\ subs = 1
    /\ requests = <<>>

\* C9: the requests emitted exceed the responses accepted by 0 or 1, and
\* between operations, while a pull is pending and the adapter is not done, by
\* exactly 1.
C9_OneOutstanding ==
    /\ Len(requests) \in {accepted, accepted + 1}
    /\ (Foreign /\ current # 0 /\ ~done) => Len(requests) = accepted + 1

\* A second request is outstanding after a first was answered.
C9_Witness ==
    /\ Foreign
    /\ current # 0
    /\ ~done
    /\ accepted = 1
    /\ Len(requests) = 2

\* C10: in every state, also inside next() and handleResponse(), waiting is
\* true only while a pull is pending.
C10_WaitingImpliesPending == waiting => current # 0

\* Inside next(), at the emit of line 92: waiting with a pending pull.
C10_Witness ==
    /\ At("makeNextRequest", "m92")
    /\ waiting
    /\ current # 0

\* C11: once done is true it stays true, and from then on no step of any
\* operation emits a request event or adds a subscription of the handler.
C11_TerminalAbsorbing ==
    [][done => (done' /\ requests' = requests /\ subs' <= subs)]_vars

\* Done by an external dispose(); afterwards a next() call was made and has
\* returned and a handleResponse() call ran to its end, and the one request
\* emitted before the disposal is still the only one.
C11_Witness ==
    /\ ~Running
    /\ done
    /\ disposed
    /\ subs = 0
    /\ Len(requests) = 1
    /\ hrLog.n > 0 /\ hrLog.doneBefore /\ hrLog.finished
    /\ \E c \in DOMAIN calls : calls[c].wasDone /\ calls[c].status = "returned"

\* How many times resolve or reject has been invoked on holder h.
Settlements(h) == holders[h].resolves + holders[h].rejects

\* C12: no holder has resolve or reject invoked on it more than once; an
\* invocation of handleResponse that passed the waiting check finds a pending
\* holder on which neither was invoked yet, and at its end exactly one of the
\* two has been invoked on that holder and this._current is null.
C12_ExactlyOnce ==
    /\ \A h \in DOMAIN holders : Settlements(h) <= 1
    /\ \A pc \in {"h73", "h74", "h76", "h78"} :
          At("handleResponse", pc) => current # 0 /\ Settlements(current) = 0
    /\ At("handleResponse", "h80") =>
          hrLog.currentBefore # 0 /\ Settlements(hrLog.currentBefore) = 1
    /\ Processed =>
          /\ hrLog.currentBefore # 0
          /\ Settlements(hrLog.currentBefore) = 1
          /\ hrLog.currentAfter = 0

\* One pull was resolved and a later one rejected, each exactly once.
C12_Witness ==
    /\ Processed
    /\ hrLog.resp.raises # "none"
    /\ hrLog.currentBefore # 0
    /\ holders[hrLog.currentBefore].rejects = 1
    /\ holders[hrLog.currentBefore].resolves = 0
    /\ \E h \in DOMAIN holders : holders[h].resolves = 1 /\ holders[h].rejects = 0

\* Holder h is not settled.
Pending(h) == holders[h].promise.state = "pending"

\* C13 as stated: once dispose() has been called by the consumer, a holder
\* that is pending stays pending in every step.
C13_NeverSettled ==
    [][\A h \in DOMAIN holders : (disposed /\ Pending(h)) => Pending(h)']_vars

\* C13, amended: once dispose() has been called by the consumer, a pending
\* holder is settled by no step of dispose() and by no handler invocation the
\* emitter dispatched; the only step that settles it belongs to a
\* handleResponse() that was called directly.
C13_SettledOnlyDirectly ==
    [][\A h \in DOMAIN holders :
           (disposed /\ Pending(h) /\ ~Pending(h)') =>
               (Running /\ Top.op = "handleResponse" /\ Top.call = 0)]_vars

\* dispose() was called with a pull pending, a response event was emitted on
\* the bus afterwards and reached no handler, and the pull is still pending.
C13_Witness ==
    /\ ~Running
    /\ disposed
    /\ subs = 0
    /\ current # 0
    /\ Pending(current)
    /\ nresp >= 1
    /\ hrLog.n = 0

\* C14: a step in which the handler, dispatched by the emitter, finds
\* this._waiting false changes none of done, _current, _waiting and the
\* subscription, settles no holder and accepts nothing; the error leaves the
\* handler and the emit call: emitted at top level it reaches the caller of
\* emit; emitted inside a request listener it unwinds that listener too and no
\* call's promise changes but that of the next() call that is dispatching.
C14_ViolationSideEffectFree ==
    [][(At("handleResponse", "h66") /\ Top.call = 1 /\ ~waiting) =>
          /\ UNCHANGED <<done, current, waiting, subs, holders, outcomes, accepted>>
          /\ IF Len(stack) = 1
             THEN /\ stack' = <<>>
                  /\ thrown' = Append(thrown, UnexpectedResponse)
                  /\ calls' = calls
             ELSE /\ stack[Len(stack) - 1].op = "listener"
                  /\ Len(stack') < Len(stack) - 1
                  /\ thrown' = thrown
                  /\ \E c \in DOMAIN calls :
                        /\ calls[c].status = "running"
                        /\ calls'[c].promise = Rejected(UnexpectedResponse)
                        /\ \A d \in DOMAIN calls \ {c} : calls'[d] = calls[d]]_vars

\* As in the test: after a pull was answered, a further response emitted on
\* the bus has thrown out of emit, with the adapter subscribed and idle.
C14_Witness ==
    /\ ~Running
    /\ hrLog.threw
    /\ hrLog.emitted
    /\ accepted >= 1
    /\ Len(thrown) >= 1
    /\ thrown[Len(thrown)] = UnexpectedResponse
    /\ ~done
    /\ subs = 1
    /\ current = 0
    /\ ~waiting

\* The handler runs, at pc, inside the request dispatch of the next() call
\* three frames below it, and n responses have been accepted since that call
\* was made.
InsideDispatch(pc, n) ==
    /\ At("handleResponse", pc)
    /\ Len(stack) >= 4
    /\ stack[Len(stack) - 1].op = "listener"
    /\ stack[Len(stack) - 2].op = "makeNextRequest"
    /\ stack[Len(stack) - 3].op = "next"
    /\ accepted = calls[stack[Len(stack) - 3].call].epoch + n

\* C15: at the emit of the request event the holder of the pull being started
\* is stored and _waiting is true; so the first response that reaches the
\* handler inside that dispatch passes the waiting check with that holder
\* pending, and at the handler's end that holder has been settled.
C15_StoredBeforeEmit ==
    /\ At("makeNextRequest", "m92") =>
          /\ waiting
          /\ current # 0
          /\ current = stack[Len(stack) - 1].hold
          /\ Pending(current)
    /\ InsideDispatch("h66", 0) =>
          /\ waiting
          /\ current = stack[Len(stack) - 3].hold
          /\ Pending(current)
    /\ InsideDispatch("h80", 1) =>
          /\ hrLog.currentBefore = stack[Len(stack) - 3].hold
          /\ Settlements(hrLog.currentBefore) = 1

\* Still inside the request listener of a next() call, a response the
\* listener emitted has been accepted and has resolved that call's holder.
C15_Witness ==
    /\ At("listener", "run")
    /\ Len(stack) = 3
    /\ stack[1].op = "next"
    /\ Processed
    /\ hrLog.emitted
    /\ hrLog.currentBefore = stack[1].hold
    /\ holders[stack[1].hold].promise = Resolved(hrLog.resp)

\* C16: a handleResponse invocation in which evaluating response.done did not
\* raise has ended without error and has resolved the pending holder with
\* exactly the response it received, whether done or not;
\* every resolved holder carries a response that was received, never the
\* { done: true, value: null } of next() once done, and a call that returned a
\* holder's promise resolves with what the holder was resolved with.
C16_ResolutionPayload ==
    /\ (Processed /\ hrLog.resp.raises = "none") =>
          /\ hrLog.currentBefore # 0
          /\ hrLog.raised = "none"
          /\ holders[hrLog.currentBefore].promise = Resolved(hrLog.resp)
    /\ \A h \in DOMAIN holders :
          holders[h].promise.state = "resolved" =>
              /\ holders[h].promise # Resolved(TerminalResult)
              /\ \E i \in DOMAIN outcomes : outcomes[i] = holders[h].promise
    /\ \A c \in DOMAIN calls :
          (calls[c].holder # 0 /\ calls[c].promise.state = "resolved") =>
              calls[c].promise = holders[calls[c].holder].promise

\* The last pull was answered with done and a value: the call that made it has
\* resolved with that response and its value, and an earlier pull with a
\* response that was not done.
C16_Witness ==
    /\ ~Running
    /\ done
    /\ Processed
    /\ hrLog.resp.done
    /\ hrLog.resp.value = "a"
    /\ \E c \in DOMAIN calls :
          /\ ~calls[c].wasDone
          /\ calls[c].promise = Resolved(hrLog.resp)
    /\ \E h \in DOMAIN holders :
          holders[h].promise.state = "resolved" /\ ~holders[h].promise.resp.done

\* C17: the handler is subscribed at most once; it is subscribed while done is
\* false; and while done is true it is not subscribed, but for the state
\* inside dispose() between its two statements.
C17_SubscriptionTracksDone ==
    /\ subs \in {0, 1}
    /\ ~done => subs = 1
    /\ (done /\ ~At("dispose", "d86")) => subs = 0

\* Done by a done response, not by a dispose() of the consumer, and no longer
\* subscribed.
C17_Witness ==
    /\ ~Running
    /\ done
    /\ ~disposed
    /\ subs = 0
    /\ hrLog.doneAfter

\* C18: at top level and inside a request listener, that is whenever no
\* operation of the adapter is in the middle of its statements, a pull is
\* pending exactly when _waiting is true.
C18_PendingIffWaiting == Foreign => (current # 0 <=> waiting)

\* After a response was processed and left the adapter idle, a further next()
\* has completed and a pull is pending and waited for again.
C18_Witness ==
    /\ ~Running
    /\ hrLog.finished
    /\ hrLog.currentAfter = 0
    /\ ~hrLog.waitingAfter
    /\ current # 0
    /\ waiting

\* C19: a handleResponse invocation on an adapter that was not done, in which
\* evaluating response.done raised, has rejected the pending holder with that
\* error and ends with done false, the handler subscribed, _current null and
\* _waiting false; and a next() call made, not done, after a response that
\* ended so has emitted exactly one request event of its own.
C19_RecoveryAfterFailure ==
    /\ (Processed /\ hrLog.resp.raises # "none" /\ ~hrLog.doneBefore) =>
          /\ hrLog.currentBefore # 0
          /\ holders[hrLog.currentBefore].promise = Rejected(hrLog.resp.raises)
          /\ ~hrLog.doneAfter
          /\ hrLog.subsAfter = 1
          /\ hrLog.currentAfter = 0
          /\ ~hrLog.waitingAfter
    /\ \A c \in DOMAIN calls :
          (/\ calls[c].epoch >= 1
           /\ ~calls[c].wasDone
           /\ calls[c].status = "returned"
           /\ outcomes[calls[c].epoch].state = "rejected") =>
              Cardinality(WindowRequests(c)) = 1

\* A pull was rejected by a raising done getter, and the pull made next was
\* resolved by a later response.
C19_Witness ==
    \E h \in DOMAIN holders :
        /\ h + 1 \in DOMAIN holders
        /\ holders[h].promise = Rejected("boom")
        /\ holders[h + 1].promise.state = "resolved"
        /\ Len(requests) = 2
        /\ \E c \in DOMAIN calls : calls[c].holder = h + 1 /\ calls[c].epoch = h

====
